---------------------------- MODULE Spec2Model ----------------------------
(***************************************************************************)
(* PSL -> MTD reconciliation (src/app.py): the column resolver, the VAT    *)
(* code normaliser, the source-type classifier, the record extractor       *)
(* (parse_excel), the box aggregator (assign_boxes) and the /api/parse     *)
(* handler.                                                                *)
(*                                                                         *)
(* Python strings are sequences of one-character strings, so that          *)
(* substring tests, lower-casing, whitespace collapsing, splitting and the *)
(* regular expression are computed character by character as the code     *)
(* computes them.  Amounts are integers.                                   *)
(***************************************************************************)
EXTENDS Integers, Sequences, FiniteSets, TLC

VARIABLES
  pc,            \* position of the operation under way
  columns,       \* _find_col: df.columns, a sequence of header strings
  keys,          \* _find_col: the candidate list
  found,         \* _find_col: the result, an index into columns (0: None)
  val,           \* normalise_vat_code: the code token
  description,   \* normalise_vat_code: the description
  tag,           \* normalise_vat_code: the result
  lines,         \* assign_boxes: the argument, a sequence of Lines
  idx,           \* assign_boxes: number of Lines the loop has processed
  per_show,      \* assign_boxes: show -> [boxes, lines]
  consolidated,  \* assign_boxes: box -> total
  files,         \* api_parse: request.files, a sequence of FileStorage
  fi,            \* api_parse: index of the file being parsed
  all_lines,     \* api_parse: Lines of the files parsed so far
  response,      \* api_parse: the response returned
  plines,        \* parse_excel: the local list `lines`
  sheet,         \* parse_excel: the sheet being read
  rows,          \* parse_excel: the rows of that sheet iterated so far
  nsheets,       \* parse_excel: sheets read in this request
  nrows,         \* parse_excel: rows read in this request
  slog           \* history: per sheet read, its outcome

vars == <<pc, columns, keys, found, val, description, tag, lines, idx, per_show,
          consolidated, files, fi, all_lines, response, plines, sheet, rows,
          nsheets, nrows, slog>>

findVars   == <<columns, keys, found>>
normVars   == <<val, description, tag>>
assignVars == <<lines, idx, per_show, consolidated>>
apiVars    == <<files, fi, all_lines, response, plines, sheet, rows, nsheets,
                nrows, slog>>

None == "None"

-----------------------------------------------------------------------------
(* Bounds *)

MaxCols == 3

MaxLines == 2

MaxFiles == 3

MaxRows == 3

\* acc["lines"][:500]
PreviewCap == 500

-----------------------------------------------------------------------------
(* Strings *)

UPPER == <<"A","B","C","D","E","F","G","H","I","J","K","L","M",
           "N","O","P","Q","R","S","T","U","V","W","X","Y","Z">>

LOWER == <<"a","b","c","d","e","f","g","h","i","j","k","l","m",
           "n","o","p","q","r","s","t","u","v","w","x","y","z">>

DIGITS == <<"0","1","2","3","4","5","6","7","8","9">>

Range(s) == {s[i] : i \in 1..Len(s)}

Min(S) == CHOOSE x \in S : \A y \in S : x <= y

LowerOf == [c \in Range(UPPER) |-> LOWER[CHOOSE i \in 1..26 : UPPER[i] = c]]

LowerChar(c) == IF c \in DOMAIN LowerOf THEN LowerOf[c] ELSE c

\* str.lower()
lower(s) == [i \in 1..Len(s) |-> LowerChar(s[i])]

\* the class \s
IsSpace(c) == c \in {" ", "\t", "\n"}

\* str.strip()
strip(s) ==
  LET keep == {i \in 1..Len(s) : ~IsSpace(s[i])}
  IN  IF keep = {} THEN <<>>
      ELSE SubSeq(s, Min(keep), CHOOSE i \in keep : \A j \in keep : j <= i)

\* re.sub(r"\s+", " ", s): every maximal run of whitespace becomes one space
RECURSIVE CollapseWs(_)
CollapseWs(s) ==
  IF s = <<>> THEN <<>>
  ELSE IF IsSpace(s[1])
       THEN IF Len(s) > 1 /\ IsSpace(s[2]) THEN CollapseWs(Tail(s))
            ELSE <<" ">> \o CollapseWs(Tail(s))
       ELSE <<s[1]>> \o CollapseWs(Tail(s))

\* the operator `w in s` on strings
Contains(w, s) ==
  \E i \in 1..(Len(s) - Len(w) + 1) : SubSeq(s, i, i + Len(w) - 1) = w

-----------------------------------------------------------------------------
(* Helpers -- column matching *)

COL_CANDIDATES ==
  [ date |-> <<
        <<"d","a","t","e">>,
        <<"t","x","n"," ","d","a","t","e">>,
        <<"d","o","c"," ","d","a","t","e">>,
        <<"i","n","v","o","i","c","e"," ","d","a","t","e">>,
        <<"p","o","s","t","i","n","g"," ","d","a","t","e">>
      >>,
    ref |-> <<
        <<"i","n","v","o","i","c","e">>,
        <<"i","n","v">>,
        <<"d","o","c","u","m","e","n","t">>,
        <<"d","o","c"," ","n","o">>,
        <<"r","e","f","e","r","e","n","c","e">>,
        <<"r","e","f">>
      >>,
    supplier |-> <<
        <<"s","u","p","p","l","i","e","r">>,
        <<"v","e","n","d","o","r">>,
        <<"c","u","s","t","o","m","e","r">>,
        <<"n","a","m","e">>,
        <<"a","c","c","o","u","n","t"," ","n","a","m","e">>
      >>,
    description |-> <<
        <<"d","e","s","c","r","i","p","t","i","o","n">>,
        <<"n","a","r","r","a","t","i","v","e">>,
        <<"m","e","m","o">>,
        <<"d","e","t","a","i","l","s">>
      >>,
    net |-> <<
        <<"n","e","t">>,
        <<"a","m","o","u","n","t"," ","(","e","x","c","l",")">>,
        <<"a","m","o","u","n","t"," ","e","x","c","l"," ","v","a","t">>,
        <<"g","o","o","d","s">>,
        <<"t","a","x","a","b","l","e"," ","a","m","o","u","n","t">>,
        <<"b","a","s","e">>,
        <<"a","m","o","u","n","t">>
      >>,
    vat |-> <<
        <<"v","a","t">>,
        <<"t","a","x">>,
        <<"v","a","t"," ","a","m","o","u","n","t">>,
        <<"t","a","x"," ","a","m","o","u","n","t">>,
        <<"v","a","t"," ","a","m","t">>
      >>,
    gross |-> <<
        <<"g","r","o","s","s">>,
        <<"a","m","o","u","n","t"," ","(","i","n","c","l",")">>,
        <<"t","o","t","a","l">>,
        <<"a","m","o","u","n","t"," ","i","n","c","l"," ","v","a","t">>
      >>,
    vat_code |-> <<
        <<"v","a","t"," ","c","o","d","e">>,
        <<"t","a","x"," ","c","o","d","e">>,
        <<"c","o","d","e">>,
        <<"t","-","c","o","d","e">>,
        <<"v","a","t"," ","t","y","p","e">>,
        <<"r","a","t","e">>,
        <<"v","a","t"," ","r","a","t","e">>
      >>,
    currency |-> <<
        <<"c","u","r","r","e","n","c","y">>,
        <<"c","u","r","r">>,
        <<"c","c","y">>
      >> ]

\* the header as the exact pass compares it
NormHeader(c) == lower(strip(CollapseWs(c)))

ExactCols(cols, want) == {c \in 1..Len(cols) : lower(want) = NormHeader(cols[c])}

FuzzyCols(cols, want) == {c \in 1..Len(cols) : Contains(lower(want), lower(cols[c]))}

\* the first candidate, in list order, that some column matches; then the
\* first such column in column order
FirstMatch(hits) ==
  LET wants == {k \in 1..Len(hits) : hits[k] # {}}
  IN  IF wants = {} THEN 0 ELSE Min(hits[Min(wants)])

\* mutant: one pass that takes a header equal to or containing the candidate
find_col_single_pass(cols, ks) ==
  FirstMatch([k \in 1..Len(ks) |-> ExactCols(cols, ks[k]) \cup FuzzyCols(cols, ks[k])])

find_col(cols, ks) ==
  LET exact == FirstMatch([k \in 1..Len(ks) |-> ExactCols(cols, ks[k])])
  IN  IF exact # 0 THEN exact
      ELSE FirstMatch([k \in 1..Len(ks) |-> FuzzyCols(cols, ks[k])])

\* df.columns is drawn from these headers
HeaderPool ==
  { <<"N","e","t">>,
    <<"N","e","t"," ","T","o","t","a","l">>,
    <<"A","m","o","u","n","t">>,
    <<"V","A","T">>,
    <<"V","A","T"," ","C","o","d","e">>,
    <<" ","T","a","x"," "," ","A","m","o","u","n","t"," ">>,
    <<"T","o","t","a","l">>,
    <<"C","o","d","e">> }

\* the sequences of at most n distinct elements of S
RECURSIVE DistinctSeqs(_, _)
DistinctSeqs(S, n) ==
  IF n = 0 THEN {<<>>}
  ELSE LET shorter == DistinctSeqs(S, n - 1)
       IN  shorter \cup
           {Append(p[1], p[2]) :
              p \in {q \in shorter \X S : Len(q[1]) = n - 1 /\ q[2] \notin Range(q[1])}}

CandidateLists == {COL_CANDIDATES[f] : f \in DOMAIN COL_CANDIDATES}

-----------------------------------------------------------------------------
(* Python values, as a cell of a sheet or an argument holds them *)

PyStr(s)  == [t |-> "str", s |-> s]
PyInt(n)  == [t |-> "int", n |-> n]
NaN     == [t |-> "nan"]     \* float('nan'), a blank cell
PyNone  == [t |-> "none"]    \* None
NA      == [t |-> "NA"]      \* pandas.NA: bool(NA) raises TypeError

\* what an operation yields when it raises
Raised == "raised"

RECURSIVE NatToStr(_)
NatToStr(n) ==
  IF n < 10 THEN <<DIGITS[n + 1]>>
  ELSE NatToStr(n \div 10) \o <<DIGITS[(n % 10) + 1]>>

\* str(x)
str(x) ==
  CASE x.t = "str"  -> x.s
    [] x.t = "int"  -> IF x.n < 0 THEN <<"-">> \o NatToStr(-x.n) ELSE NatToStr(x.n)
    [] x.t = "nan"  -> <<"n","a","n">>
    [] x.t = "none" -> <<"N","o","n","e">>
    [] x.t = "NA"   -> <<"<","N","A",">">>

\* bool(x); pandas.NA has no truth value
Truthy(x) ==
  CASE x.t = "str"  -> x.s # <<>>
    [] x.t = "int"  -> x.n # 0
    [] x.t = "nan"  -> TRUE
    [] x.t = "none" -> FALSE

-----------------------------------------------------------------------------
(* VAT code normaliser *)

\* Normalisation map, in the dict's insertion order
NORMALISE_MAP ==
  <<
    <<<<"t","2","0">>, "T20">>,
    <<<<"t","1">>, "T20">>,
    <<<<"s","t","d">>, "T20">>,
    <<<<"s","t","a","n","d","a","r","d">>, "T20">>,
    <<<<"2","0">>, "T20">>,
    <<<<"2","0","%">>, "T20">>,
    <<<<"t","0">>, "T0">>,
    <<<<"z">>, "T0">>,
    <<<<"z","e","r","o">>, "T0">>,
    <<<<"0">>, "T0">>,
    <<<<"0","%">>, "T0">>,
    <<<<"e">>, "EXEMPT">>,
    <<<<"e","x","e","m","p","t">>, "EXEMPT">>,
    <<<<"v","x">>, "OOS">>,
    <<<<"o","o","s">>, "OOS">>,
    <<<<"o","u","t","o","f","s","c","o","p","e">>, "OOS">>,
    <<<<"o","u","t"," ","o","f"," ","s","c","o","p","e">>, "OOS">>,
    <<<<"t","5">>, "REDUCED">>,
    <<<<"5">>, "REDUCED">>,
    <<<<"5","%">>, "REDUCED">>,
    <<<<"r","e","d","u","c","e","d">>, "REDUCED">>,
    <<<<"n","i">>, "NI">>,
    <<<<"n","o","r","t","h","e","r","n"," ","i","r","e","l","a","n","d">>, "NI">>,
    <<<<"e","u">>, "EU">>,
    <<<<"e","c">>, "EU">>,
    <<<<"e","e","c">>, "EU">>
  >>

\* VAT_CODE_REGEX, as the ordered list of its alternatives: a group followed
\* by a space, (a|b) , is the alternatives "a " then "b ".  "\\s*", "-?" and
\* "\\b" are the regex's own elements, every other element one literal
\* character (the pattern is case-insensitive).
VAT_CODE_REGEX ==
  <<
    <<"t","\\s*","-?","\\s*","2","0"," ">>,
    <<"t","\\s*","-?","\\s*","1"," ">>,
    <<"s","t","d"," ">>,
    <<"s","t","a","n","d","a","r","d"," ">>,
    <<"2","0","%"," ">>,
    <<"2","0"," ">>,
    <<"t","\\s*","-?","\\s*","0"," ">>,
    <<"z","e","r","o"," ">>,
    <<"0","%"," ">>,
    <<"e","x","e","m","p","t"," ">>,
    <<"e"," ">>,
    <<"v","x"," ">>,
    <<"o","u","t","\\s*","o","f","\\s*","s","c","o","p","e"," ">>,
    <<"o","o","s"," ">>,
    <<"t","\\s*","-?","\\s*","5"," ">>,
    <<"5","%"," ">>,
    <<"r","e","d","u","c","e","d"," ">>,
    <<"n","i">>,
    <<"n","o","r","t","h","e","r","n","\\s*","i","r","e","l","a","n","d">>,
    <<"\\b","e","u","\\b">>,
    <<"\\b","e","c","\\b">>
  >>

\* the class \w
WordChars == Range(LOWER) \cup Range(UPPER) \cup Range(DIGITS) \cup {"_"}

IsWord(c) == c \in WordChars

\* \b at position i: between s[i-1] and s[i]
WordBoundary(s, i) ==
  (i > 1 /\ IsWord(s[i - 1])) # (i <= Len(s) /\ IsWord(s[i]))

\* number of whitespace characters of s from position i on
RECURSIVE SpaceRun(_, _)
SpaceRun(s, i) == IF i <= Len(s) /\ IsSpace(s[i]) THEN 1 + SpaceRun(s, i + 1) ELSE 0

\* the position after the match of pat at position i of s that the
\* backtracking matcher finds first; 0 when there is none
RECURSIVE MatchEnd(_, _, _), MatchSpaces(_, _, _, _)
MatchEnd(pat, s, i) ==
  IF pat = <<>> THEN i
  ELSE LET e == Head(pat)
           rest == Tail(pat)
       IN  CASE e = "\\s*" -> MatchSpaces(rest, s, i, SpaceRun(s, i))
             [] e = "-?"   -> LET taken == IF i <= Len(s) /\ s[i] = "-"
                                           THEN MatchEnd(rest, s, i + 1) ELSE 0
                              IN  IF taken # 0 THEN taken ELSE MatchEnd(rest, s, i)
             [] e = "\\b"  -> IF WordBoundary(s, i) THEN MatchEnd(rest, s, i) ELSE 0
             [] OTHER      -> IF i <= Len(s) /\ LowerChar(s[i]) = e
                              THEN MatchEnd(rest, s, i + 1) ELSE 0

\* \s* is greedy: k whitespace characters, then fewer
MatchSpaces(rest, s, i, k) ==
  LET end == MatchEnd(rest, s, i + k)
  IN  IF end # 0 \/ k = 0 THEN end ELSE MatchSpaces(rest, s, i, k - 1)

MatchesAt(s, i) == {a \in 1..Len(VAT_CODE_REGEX) : MatchEnd(VAT_CODE_REGEX[a], s, i) # 0}

\* VAT_CODE_REGEX.search(s): the leftmost match, of the first alternative
\* that matches there; m.group(0), or None
search(s) ==
  LET starts == {i \in 1..Len(s) : MatchesAt(s, i) # {}}
  IN  IF starts = {} THEN PyNone
      ELSE LET i == Min(starts)
               a == Min(MatchesAt(s, i))
           IN  PyStr(SubSeq(s, i, MatchEnd(VAT_CODE_REGEX[a], s, i) - 1))

\* the class [a-z0-9%]
TokenChars == Range(LOWER) \cup Range(DIGITS) \cup {"%"}

IsTokenChar(c) == c \in TokenChars

\* re.split(r"[^a-z0-9%]+", s)
RECURSIVE SplitFrom(_, _, _, _)
SplitFrom(s, i, cur, insep) ==
  IF i > Len(s) THEN <<cur>>
  ELSE IF IsTokenChar(s[i]) THEN SplitFrom(s, i + 1, Append(cur, s[i]), FALSE)
  ELSE IF insep THEN SplitFrom(s, i + 1, cur, TRUE)
  ELSE <<cur>> \o SplitFrom(s, i + 1, <<>>, TRUE)

split(s) == SplitFrom(s, 1, <<>>, FALSE)

\* for k, v in NORMALISE_MAP.items(): if k in text: return v
FirstKeyIn(text) ==
  LET hits == {k \in 1..Len(NORMALISE_MAP) : Contains(NORMALISE_MAP[k][1], text)}
  IN  IF hits = {} THEN None ELSE NORMALISE_MAP[Min(hits)][2]

\* for t in tokens: if t in NORMALISE_MAP: return NORMALISE_MAP[t]
FirstToken(tokens) ==
  LET hits == {j \in 1..Len(tokens) :
                 \E k \in 1..Len(NORMALISE_MAP) : NORMALISE_MAP[k][1] = tokens[j]}
  IN  IF hits = {} THEN None
      ELSE LET t == tokens[Min(hits)]
           IN  NORMALISE_MAP[CHOOSE k \in 1..Len(NORMALISE_MAP) : NORMALISE_MAP[k][1] = t][2]

\* val is a Python value, desc a string
normalise_vat_code(v, desc) ==
  IF v.t = "NA" THEN Raised
  ELSE
    LET s == lower(strip(IF Truthy(v) THEN str(v) ELSE <<>>))
        m == IF s # <<>> THEN search(s) ELSE PyNone
        byRegex == IF m.t = "str" THEN FirstKeyIn(lower(m.s)) ELSE None
        byToken == FirstToken(IF s # <<>> THEN split(s) ELSE <<>>)
        byDesc == FirstKeyIn(lower(desc))
    IN  IF byRegex # None THEN byRegex
        ELSE IF byToken # None THEN byToken
        ELSE IF byDesc # None THEN byDesc
        ELSE "UNKNOWN"

\* the canonical tags, spelled as strings
CanonicalTags ==
  <<
    <<<<"T","2","0">>, "T20">>,
    <<<<"T","0">>, "T0">>,
    <<<<"E","X","E","M","P","T">>, "EXEMPT">>,
    <<<<"O","O","S">>, "OOS">>,
    <<<<"R","E","D","U","C","E","D">>, "REDUCED">>,
    <<<<"N","I">>, "NI">>,
    <<<<"E","U">>, "EU">>,
    <<<<"U","N","K","N","O","W","N">>, "UNKNOWN">>
  >>

TokenPool ==
  { <<>>,
    <<"T","1">>,
    <<"E","E","C">>,
    <<"t"," ","-"," ","2","0"," ","x">>,
    <<"S","t","a","n","d","a","r","d"," ","r","a","t","e","d">>,
    <<"2","0","%">>,
    <<"5","%"," ","r","a","t","e">>,
    <<"n","/","a">> }

DescriptionPool ==
  { <<>>,
    <<"S","a","l","e"," ","t","o"," ","E","U"," ","c","u","s","t","o","m","e","r">>,
    <<"N","I"," ","s","u","p","p","l","y">>,
    <<"b","o","x">>,
    <<"2","0","%"," ","o","f"," ","l","o","t">>,
    <<"O","O","S">> }

ValuePool ==
  {PyStr(CanonicalTags[k][1]) : k \in 1..Len(CanonicalTags)}
    \cup {PyStr(s) : s \in TokenPool} \cup {PyInt(20), PyInt(0), PyNone, NaN}

-----------------------------------------------------------------------------
(* Value coercion and the source-type classifier *)

DigitChars == Range(DIGITS)

IsDigit(c) == c \in DigitChars

DigitValue(c) == (CHOOSE i \in 1..10 : DIGITS[i] = c) - 1

RECURSIVE DigitsValue(_)
DigitsValue(ds) ==
  IF ds = <<>> THEN 0
  ELSE 10 * DigitsValue(SubSeq(ds, 1, Len(ds) - 1)) + DigitValue(ds[Len(ds)])

\* x.replace(",", "")
RECURSIVE RemoveCommas(_)
RemoveCommas(s) ==
  IF s = <<>> THEN <<>>
  ELSE IF s[1] = "," THEN RemoveCommas(Tail(s))
  ELSE <<s[1]>> \o RemoveCommas(Tail(s))

\* float(x) of a string: an optional sign and decimal digits; anything else
\* raises ValueError, which _to_float turns into 0.0.  (Amounts are whole
\* numbers here: the pools hold no string with a decimal point, an exponent,
\* an underscore or an inf/nan spelling.)
FloatOfString(s) ==
  LET signed == s # <<>> /\ s[1] \in {"-", "+"}
      ds == IF signed THEN Tail(s) ELSE s
  IN  IF ds # <<>> /\ \A i \in 1..Len(ds) : IsDigit(ds[i])
      THEN IF signed /\ s[1] = "-" THEN -DigitsValue(ds) ELSE DigitsValue(ds)
      ELSE 0

\* pd.isna(x)
isna(x) == x.t \in {"nan", "none", "NA"}

to_float(x) ==
  IF isna(x) THEN 0
  ELSE IF x.t = "str" THEN FloatOfString(strip(RemoveCommas(x.s)))
  ELSE x.n

ContainsAny(ws, s) == \E w \in ws : Contains(w, s)

SalesWords == {<<"s","a","l","e">>, <<"a","r">>, <<"o","u","t","p","u","t">>}

PurchaseWords == {<<"p","u","r","c","h","a","s","e">>, <<"a","p">>, <<"i","n","p","u","t">>, <<"p","a","y","a","b","l","e">>}

detect_source_type(sheet_name, filename) ==
  LET probe == lower(sheet_name \o <<" ">> \o filename)
  IN  IF ContainsAny(SalesWords, probe) THEN "sales"
      ELSE IF ContainsAny(PurchaseWords, probe) THEN "purchases"
      ELSE "unknown"

\* os.path.splitext(filename)[0]: the name up to its last dot (a dot that
\* leads the name starts no extension)
splitext0(filename) ==
  LET dots == {i \in 2..Len(filename) : filename[i] = "."}
  IN  IF dots = {} THEN filename
      ELSE SubSeq(filename, 1, (CHOOSE i \in dots : \A j \in dots : j <= i) - 1)

-----------------------------------------------------------------------------
(* Box assignment logic *)

\* A Line carries show, sheet, net, vat, gross, vat_code and source_type.
\* (Its date, ref, supplier, description and raw fields are copied from the
\* row and read by nothing below; they are left out.)
Line(show, sh, net, vat, gross, vcode, src_type) ==
  [show |-> show, sheet |-> sh, net |-> net, vat |-> vat, gross |-> gross,
   vat_code |-> vcode, source_type |-> src_type]

BoxKeys == {"1", "4", "6", "7", "8", "9"}

init_acc == [k \in BoxKeys |-> 0]

\* mutant: the purchases branch leaves "unknown" sheets out
ChainRules_purchases_only(boxes, ln) ==
  IF ln.source_type = "sales" /\ ln.vat_code = "T20"
  THEN [boxes EXCEPT !["1"] = @ + ln.vat, !["6"] = @ + ln.net]
  ELSE IF ln.source_type \in {"purchases"} /\ ln.vat_code \in {"T20", "REDUCED"}
  THEN [boxes EXCEPT !["4"] = @ + ln.vat, !["7"] = @ + ln.net]
  ELSE IF ln.source_type = "sales" /\ ln.vat_code \in {"T0"}
  THEN [boxes EXCEPT !["6"] = @ + ln.net]
  ELSE boxes

\* mutant: the zero-rated branch assigns box 6 where it should add to it
ChainRules_t0_assigns(boxes, ln) ==
  IF ln.source_type = "sales" /\ ln.vat_code = "T20"
  THEN [boxes EXCEPT !["1"] = @ + ln.vat, !["6"] = @ + ln.net]
  ELSE IF ln.source_type \in {"purchases", "unknown"} /\ ln.vat_code \in {"T20", "REDUCED"}
  THEN [boxes EXCEPT !["4"] = @ + ln.vat, !["7"] = @ + ln.net]
  ELSE IF ln.source_type = "sales" /\ ln.vat_code \in {"T0"}
  THEN [boxes EXCEPT !["6"] = ln.net]
  ELSE boxes

\* the if / elif / elif chain: boxes 1 and 6, boxes 4 and 7, box 6
ChainRules(boxes, ln) ==
  IF ln.source_type = "sales" /\ ln.vat_code = "T20"
  THEN [boxes EXCEPT !["1"] = @ + ln.vat, !["6"] = @ + ln.net]
  ELSE IF ln.source_type \in {"purchases", "unknown"} /\ ln.vat_code \in {"T20", "REDUCED"}
  THEN [boxes EXCEPT !["4"] = @ + ln.vat, !["7"] = @ + ln.net]
  ELSE IF ln.source_type = "sales" /\ ln.vat_code \in {"T0"}
  THEN [boxes EXCEPT !["6"] = @ + ln.net]
  ELSE boxes

\* mutant: the box 8 test reads `code in ("NI", "EU") or st == "sales"`
NiEuRules_any_sale(boxes, ln) ==
  LET b8 == IF ln.vat_code \in {"NI", "EU"} \/ ln.source_type = "sales"
            THEN [boxes EXCEPT !["8"] = @ + ln.net] ELSE boxes
  IN  IF ln.vat_code \in {"NI", "EU"} /\ ln.source_type # "sales"
      THEN [b8 EXCEPT !["9"] = @ + ln.net] ELSE b8

\* the two NI/EU ifs that follow the chain
NiEuRules(boxes, ln) ==
  LET b8 == IF ln.vat_code \in {"NI", "EU"} /\ ln.source_type = "sales"
            THEN [boxes EXCEPT !["8"] = @ + ln.net] ELSE boxes
  IN  IF ln.vat_code \in {"NI", "EU"} /\ ln.source_type # "sales"
      THEN [b8 EXCEPT !["9"] = @ + ln.net] ELSE b8

\* per_show.setdefault(ln.show, {"boxes": init_acc(), "lines": []})
setdefault(ps, show) ==
  IF show \in DOMAIN ps THEN ps
  ELSE [s \in DOMAIN ps \cup {show} |->
          IF s = show THEN [boxes |-> init_acc, lines |-> <<>>] ELSE ps[s]]

\* one iteration of the aggregation loop
Aggregate(ps, ln) ==
  LET ps1 == setdefault(ps, ln.show)
  IN  [ps1 EXCEPT ![ln.show] =
         [boxes |-> NiEuRules(ChainRules(@.boxes, ln), ln),
          lines |-> Append(@.lines, ln)]]

RECURSIVE SumOver(_, _, _)
SumOver(ps, shows, k) ==
  IF shows = {} THEN 0
  ELSE LET s == CHOOSE x \in shows : TRUE
       IN  ps[s].boxes[k] + SumOver(ps, shows \ {s}, k)

\* mutant: consolidated[k] = acc["boxes"][k], an assignment for the +=
Consolidated_assigns(ps) ==
  [k \in BoxKeys |->
     IF DOMAIN ps = {} THEN 0 ELSE ps[CHOOSE s \in DOMAIN ps : TRUE].boxes[k]]

\* the loop that fills `consolidated`
Consolidated(ps) == [k \in BoxKeys |-> SumOver(ps, DOMAIN ps, k)]

RECURSIVE AggregateAll(_, _)
AggregateAll(ps, lns) ==
  IF lns = <<>> THEN ps ELSE AggregateAll(Aggregate(ps, Head(lns)), Tail(lns))

\* assign_boxes(lines), run to its return
assign_boxes(lns) ==
  LET ps == AggregateAll(<<>>, lns)
  IN  [per_show |-> ps, consolidated |-> Consolidated(ps)]

VatTags == {"T20", "T0", "EXEMPT", "OOS", "REDUCED", "NI", "EU", "UNKNOWN"}

\* The Lines assign_boxes is given are the ones parse_excel builds: show is
\* the file's name without its extension and source_type is what
\* detect_source_type makes of the sheet's and the file's names.
LineFiles == {<<"q","1",".","x","l","s","x">>, <<"a","p","_","q","2",".","x","l","s">>}

LineSheets == {<<"S","a","l","e","s">>, <<"M","i","s","c">>}

\* net and vat: an invoice, and a credit note
LineAmounts == {<<100, 20>>, <<-30, -6>>}

\* the first file's sheets hold invoices and credit notes, the second file's
\* invoices
AmountsOf(f) == IF f = <<"q","1",".","x","l","s","x">> THEN LineAmounts ELSE {<<100, 20>>}

LineUniverse ==
  UNION {{Line(splitext0(f), sh, a[1], a[2], a[1] + a[2], c, detect_source_type(sh, f)) :
            sh \in LineSheets, a \in AmountsOf(f), c \in VatTags} : f \in LineFiles}

\* the sequences of at most n elements of S
SeqsUpTo(S, n) == UNION {[1..k -> S] : k \in 0..n}

-----------------------------------------------------------------------------
(* Record extraction: parse_excel *)

\* the columns parse_excel resolves once per sheet, as indexes into the
\* sheet's columns (0: None)
ResolveColumns(cols) ==
  [c_net   |-> find_col(cols, COL_CANDIDATES.net),
   c_vat   |-> find_col(cols, COL_CANDIDATES.vat),
   c_gross |-> find_col(cols, COL_CANDIDATES.gross),
   c_code  |-> find_col(cols, COL_CANDIDATES.vat_code),
   c_desc  |-> find_col(cols, COL_CANDIDATES.description)]

\* if not (c_net or c_vat or c_gross): continue
HasNumericColumn(c) == c.c_net # 0 \/ c.c_vat # 0 \/ c.c_gross # 0

\* r.get(c): the cell, or None when no column was resolved
get(r, c) == IF c # 0 THEN r[c] ELSE PyNone

\* net, vat and gross of a row, coerced
RowAmounts(c, r) ==
  LET net == IF c.c_net # 0 THEN to_float(get(r, c.c_net)) ELSE 0
      vat == IF c.c_vat # 0 THEN to_float(get(r, c.c_vat)) ELSE 0
      gross == IF c.c_gross # 0 THEN to_float(get(r, c.c_gross)) ELSE net + vat
  IN  [net |-> net, vat |-> vat, gross |-> gross]

\* mutant: the test looks at net alone
IsZeroRow_net_only(a) == a.net = 0

\* if net == 0 and vat == 0 and gross == 0: continue
IsZeroRow(a) == a.net = 0 /\ a.vat = 0 /\ a.gross = 0

\* the VAT code of a row; Raised when normalise_vat_code raises
RowVatCode(c, r) ==
  IF c.c_code # 0
  THEN normalise_vat_code(get(r, c.c_code), str(get(r, c.c_desc)))
  ELSE normalise_vat_code(PyStr(<<>>), str(get(r, c.c_desc)))

\* one iteration of the row loop: "skip" (the row is dropped), "raise" (an
\* exception leaves the loop) or "line" (a Line is appended)
RowStep(filename, sheet_name, c, r) ==
  LET a == RowAmounts(c, r)
      vcode == IF IsZeroRow(a) THEN None ELSE RowVatCode(c, r)
  IN  IF IsZeroRow(a) THEN [kind |-> "skip"]
      ELSE IF vcode = Raised THEN [kind |-> "raise"]
      ELSE [kind |-> "line",
            line |-> Line(splitext0(filename), sheet_name, a.net, a.vat, a.gross,
                          vcode, detect_source_type(sheet_name, filename))]

\* the row loop over rs, from `out`: the Lines list when the loop ends, by
\* exhaustion or by an exception
RECURSIVE RowLoop(_, _, _, _, _)
RowLoop(filename, sheet_name, c, rs, out) ==
  IF rs = <<>> THEN out
  ELSE LET step == RowStep(filename, sheet_name, c, Head(rs))
       IN  IF step.kind = "raise" THEN out
           ELSE RowLoop(filename, sheet_name, c, Tail(rs),
                        IF step.kind = "line" THEN Append(out, step.line) ELSE out)

\* the body of `for sheet in xls.sheet_names`, try / except included.  A
\* sheet is what pd.read_excel makes of it: it raises (read = "unreadable")
\* or gives a frame with these columns and rows.
SheetStep(filename, sh, out) ==
  IF sh.read = "unreadable" THEN out
  ELSE IF sh.rows = <<>> THEN out
  ELSE IF ~HasNumericColumn(ResolveColumns(sh.columns)) THEN out
  ELSE RowLoop(filename, sh.name, ResolveColumns(sh.columns), sh.rows, out)

RECURSIVE SheetLoop(_, _, _)
SheetLoop(filename, shs, out) ==
  IF shs = <<>> THEN out
  ELSE SheetLoop(filename, Tail(shs), SheetStep(filename, Head(shs), out))

\* parse_excel(file_storage): Raised when pd.ExcelFile cannot open the file
parse_excel(file_storage) ==
  IF ~file_storage.opens THEN Raised
  ELSE SheetLoop(file_storage.filename, file_storage.sheets, <<>>)

\* The frames pd.read_excel gives, rows apart.
Layouts ==
  { <<<<"N","e","t">>, <<"V","A","T">>, <<"V","A","T"," ","C","o","d","e">>>>,
    <<<<"A","m","o","u","n","t">>, <<"T","o","t","a","l">>, <<"D","e","s","c","r","i","p","t","i","o","n">>>>,
    <<<<"D","a","t","e">>, <<"R","e","f">>, <<"N","o","t","e","s">>>> }

FramePool ==
  {[read |-> "unreadable", columns |-> <<>>]}
    \cup {[read |-> "ok", columns |-> l] : l \in Layouts}

\* The rows, three cells each.
RowPool ==
  { <<PyInt(100), PyInt(20), PyStr(<<"T","2","0">>)>>,
    <<PyStr(<<"1",",","0","0","0">>), NaN, PyStr(<<"E","E","C">>)>>,
    <<PyInt(0), PyStr(<<"n","/","a">>), NaN>>,
    <<NaN, PyInt(7), NA>> }

\* The workbooks parse_excel is run on: a name and the sheet names.
WorkbookPool ==
  { [filename |-> <<"q","1",".","x","l","s","x">>, sheet_names |-> <<<<"S","a","l","e","s">>, <<"A","P">>>>],
    [filename |-> <<"s","a","l","e","s","_","q","2",".","x","l","s">>, sheet_names |-> <<<<"S","h","e","e","t","1">>>>] }

Sheet(name, read, cols, rs) == [name |-> name, read |-> read, columns |-> cols, rows |-> rs]

\* The uploads api_parse is given, whole.
UploadPool ==
  { [filename |-> <<"q","1",".","x","l","s","x">>, opens |-> TRUE,
     sheets |-> << Sheet(<<"S","a","l","e","s">>, "ok", <<<<"N","e","t">>, <<"V","A","T">>, <<"V","A","T"," ","C","o","d","e">>>>,
                         << <<PyInt(100), PyInt(20), PyStr(<<"T","2","0">>)>>,
                            <<PyInt(0), NaN, PyStr(<<"T","2","0">>)>> >>),
                   Sheet(<<"A","P">>, "ok", <<<<"A","m","o","u","n","t">>, <<"T","o","t","a","l">>, <<"D","e","s","c","r","i","p","t","i","o","n">>>>,
                         << <<PyStr(<<"1",",","0","0","0">>), PyInt(1200), PyStr(<<"2","0","%"," ","h","i","r","e">>)>> >>) >>],
    [filename |-> <<"s","a","l","e","s","_","q","2",".","x","l","s">>, opens |-> TRUE,
     sheets |-> << Sheet(<<"S","h","e","e","t","1">>, "ok", <<<<"N","e","t">>, <<"V","A","T">>, <<"V","A","T"," ","C","o","d","e">>>>,
                         << <<PyInt(50), PyInt(0), PyStr(<<"N","I">>)>> >>) >>],
    [filename |-> <<"n","o","t","e","s",".","x","l","s","x">>, opens |-> TRUE,
     sheets |-> << Sheet(<<"N","o","t","e","s">>, "ok", <<<<"D","a","t","e">>, <<"R","e","f">>, <<"N","o","t","e","s">>>>,
                         << <<NaN, PyInt(7), PyStr(<<"p","a","i","d">>)>> >>),
                   Sheet(<<"C","h","a","r","t">>, "unreadable", <<>>, <<>>) >>],
    [filename |-> <<"b","r","o","k","e","n",".","x","l","s","x">>, opens |-> FALSE, sheets |-> <<>>],
    [filename |-> <<"r","e","p","o","r","t",".","x","l","s">>, opens |-> FALSE, sheets |-> <<>>] }

IdleFind   == columns = <<>> /\ keys = <<>> /\ found = None
IdleNorm   == val = <<>> /\ description = <<>> /\ tag = None
IdleAssign == lines = <<>> /\ idx = 0 /\ per_show = <<>> /\ consolidated = <<>>
IdleApi ==
  /\ files = <<>> /\ fi = 0 /\ all_lines = <<>> /\ response = None
  /\ plines = <<>> /\ sheet = None /\ rows = <<>> /\ nsheets = 0 /\ nrows = 0
  /\ slog = <<>>

InitFind ==
  /\ pc = "find_col"
  /\ columns \in DistinctSeqs(HeaderPool, MaxCols) \ {<<>>}
  /\ keys \in CandidateLists
  /\ found = None
  /\ IdleNorm /\ IdleAssign /\ IdleApi

FindCol ==
  /\ pc = "find_col"
  /\ found' = find_col(columns, keys)
  /\ pc' = "returned"
  /\ UNCHANGED <<columns, keys, normVars, assignVars, apiVars>>

NextFind == FindCol

SpecFind == InitFind /\ [][NextFind]_vars

InitNorm ==
  /\ pc = "normalise_vat_code"
  /\ val \in ValuePool
  /\ description \in DescriptionPool
  /\ tag = None
  /\ IdleFind /\ IdleAssign /\ IdleApi

NormaliseVatCode ==
  /\ pc = "normalise_vat_code"
  /\ tag' = normalise_vat_code(val, description)
  /\ pc' = "returned"
  /\ UNCHANGED <<val, description, findVars, assignVars, apiVars>>

NextNorm == NormaliseVatCode

SpecNorm == InitNorm /\ [][NextNorm]_vars

InitAssign ==
  /\ pc = "assign_boxes"
  /\ lines \in SeqsUpTo(LineUniverse, MaxLines)
  /\ idx = 0
  /\ per_show = <<>>
  /\ consolidated = <<>>
  /\ IdleFind /\ IdleNorm /\ IdleApi

\* for ln in lines: one iteration
AggregateLine ==
  /\ pc = "assign_boxes"
  /\ idx < Len(lines)
  /\ per_show' = Aggregate(per_show, lines[idx + 1])
  /\ idx' = idx + 1
  /\ UNCHANGED <<pc, lines, consolidated, findVars, normVars, apiVars>>

\* the loop is over: consolidate and return
Consolidate ==
  /\ pc = "assign_boxes"
  /\ idx = Len(lines)
  /\ consolidated' = Consolidated(per_show)
  /\ pc' = "returned"
  /\ UNCHANGED <<lines, idx, per_show, findVars, normVars, apiVars>>

NextAssign == AggregateLine \/ Consolidate

SpecAssign == InitAssign /\ [][NextAssign]_vars

-----------------------------------------------------------------------------
(* parse_excel, sheet by sheet and row by row.  The workbook's frames and    *)
(* rows are read as the loops reach them.                                  *)

InitParse ==
  /\ pc = "parse_excel"
  /\ files \in {<<[filename |-> w.filename, sheet_names |-> w.sheet_names,
                   opens |-> o]>> : w \in WorkbookPool, o \in BOOLEAN}
  /\ fi = 1
  /\ all_lines = <<>>
  /\ response = None
  /\ plines = <<>>
  /\ sheet = None
  /\ rows = <<>>
  /\ nsheets = 0
  /\ nrows = 0
  /\ slog = <<>>
  /\ IdleFind /\ IdleNorm /\ IdleAssign

\* xls = pd.ExcelFile(io.BytesIO(content)); lines = []
OpenWorkbook ==
  /\ pc = "parse_excel"
  /\ pc' = IF files[fi].opens THEN "sheets" ELSE "raised"
  /\ UNCHANGED <<apiVars, findVars, normVars, assignVars>>

\* history of a sheet: its outcome, the columns it resolved to, the rows
\* iterated, and where the Lines it appended lie in the list
LogEntry(name, outcome, c, rs, first, last) ==
  [sheet |-> name, outcome |-> outcome, c |-> c, rows |-> rs,
   first |-> first, last |-> last]

\* for sheet in xls.sheet_names: read the sheet and resolve its columns
ReadSheet ==
  /\ pc = "sheets"
  /\ nsheets < Len(files[fi].sheet_names)
  /\ nsheets' = nsheets + 1
  /\ \E df \in FramePool, empty \in BOOLEAN :
       LET name == files[fi].sheet_names[nsheets + 1]
           c == ResolveColumns(df.columns)
       IN  IF df.read = "unreadable"
           THEN /\ ~empty
                /\ slog' = Append(slog, LogEntry(name, "raised", c, <<>>,
                                                 Len(plines), Len(plines)))
                /\ UNCHANGED <<pc, sheet, rows>>
           ELSE IF empty \/ ~HasNumericColumn(c)
           THEN UNCHANGED <<pc, sheet, rows, slog>>
           ELSE /\ nrows < MaxRows
                /\ sheet' = [name |-> name, columns |-> df.columns, c |-> c,
                             first |-> Len(plines)]
                /\ rows' = <<>>
                /\ pc' = "rows"
                /\ UNCHANGED slog
  /\ UNCHANGED <<files, fi, all_lines, response, plines, nrows,
                 findVars, normVars, assignVars>>

\* for _, r in df.iterrows(): one row
ReadRow ==
  /\ pc = "rows"
  /\ nrows < MaxRows
  /\ nrows' = nrows + 1
  /\ \E r \in RowPool :
       LET step == RowStep(files[fi].filename, sheet.name, sheet.c, r)
       IN  /\ rows' = Append(rows, r)
           /\ plines' = IF step.kind = "line" THEN Append(plines, step.line) ELSE plines
           /\ IF step.kind = "raise"
              THEN /\ pc' = "sheets"
                   /\ slog' = Append(slog, LogEntry(sheet.name, "raised", sheet.c,
                                                    Append(rows, r), sheet.first,
                                                    Len(plines)))
              ELSE UNCHANGED <<pc, slog>>
  /\ UNCHANGED <<files, fi, all_lines, response, sheet, nsheets,
                 findVars, normVars, assignVars>>

\* the rows are exhausted
EndSheet ==
  /\ pc = "rows"
  /\ rows # <<>>
  /\ pc' = "sheets"
  /\ slog' = Append(slog, LogEntry(sheet.name, "ok", sheet.c, rows, sheet.first,
                                   Len(plines)))
  /\ UNCHANGED <<files, fi, all_lines, response, plines, sheet, rows, nsheets, nrows,
                 findVars, normVars, assignVars>>

\* return lines
ReturnLines ==
  /\ pc = "sheets"
  /\ nsheets = Len(files[fi].sheet_names)
  /\ pc' = "returned"
  /\ UNCHANGED <<apiVars, findVars, normVars, assignVars>>

NextParse == OpenWorkbook \/ ReadSheet \/ ReadRow \/ EndSheet \/ ReturnLines

SpecParse == InitParse /\ [][NextParse]_vars

-----------------------------------------------------------------------------
(* Routes: api_parse *)

InitApi ==
  /\ pc = "api_parse"
  /\ files \in SeqsUpTo(UploadPool, MaxFiles)
  /\ fi = 0
  /\ all_lines = <<>>
  /\ response = None
  /\ plines = <<>>
  /\ sheet = None
  /\ rows = <<>>
  /\ nsheets = 0
  /\ nrows = 0
  /\ slog = <<>>
  /\ IdleFind /\ IdleNorm /\ IdleAssign

\* if not files: return {"error": "No files uploaded"}, 400
NoFiles ==
  /\ pc = "api_parse"
  /\ files = <<>>
  /\ response' = [status |-> 400, error |-> <<"N","o"," ","f","i","l","e","s"," ","u","p","l","o","a","d","e","d">>]
  /\ pc' = "done"
  /\ UNCHANGED <<files, fi, all_lines, plines, sheet, rows, nsheets, nrows, slog,
                 findVars, normVars, assignVars>>

\* mutant: the except branch skips the file and goes on
ParseFile_continue ==
  /\ pc = "api_parse"
  /\ fi < Len(files)
  /\ fi' = fi + 1
  /\ LET parsed == parse_excel(files[fi + 1])
     IN  all_lines' = IF parsed = Raised THEN all_lines ELSE all_lines \o parsed
  /\ UNCHANGED <<pc, response, files, plines, sheet, rows, nsheets, nrows, slog,
                 findVars, normVars, assignVars>>

\* for fs in files: all_lines.extend(parse_excel(fs)), or the except branch
ParseFile ==
  /\ pc = "api_parse"
  /\ fi < Len(files)
  /\ fi' = fi + 1
  /\ LET fs == files[fi + 1]
         parsed == parse_excel(fs)
     IN  IF parsed = Raised
         THEN /\ response' = [status |-> 400,
                              error |-> <<"F","a","i","l","e","d"," ","t","o"," ","p","a","r","s","e"," ">> \o fs.filename \o <<":", " ">>]
              /\ pc' = "done"
              /\ UNCHANGED all_lines
         ELSE /\ all_lines' = all_lines \o parsed
              /\ UNCHANGED <<pc, response>>
  /\ UNCHANGED <<files, plines, sheet, rows, nsheets, nrows, slog,
                 findVars, normVars, assignVars>>

\* acc["lines"] = acc["lines"][:500]
Preview(ps) ==
  [s \in DOMAIN ps |->
     [ps[s] EXCEPT !.lines = SubSeq(@, 1, IF Len(@) < PreviewCap THEN Len(@) ELSE PreviewCap)]]

\* result = assign_boxes(all_lines); return json.dumps(result), 200
Respond ==
  /\ pc = "api_parse"
  /\ files # <<>>
  /\ fi = Len(files)
  /\ LET result == assign_boxes(all_lines)
     IN  response' = [status |-> 200, per_show |-> Preview(result.per_show),
                      consolidated |-> result.consolidated]
  /\ pc' = "done"
  /\ UNCHANGED <<files, fi, all_lines, plines, sheet, rows, nsheets, nrows, slog,
                 findVars, normVars, assignVars>>

NextApi == NoFiles \/ ParseFile \/ Respond

SpecApi == InitApi /\ [][NextApi]_vars

-----------------------------------------------------------------------------
(* Claims about _find_col, under SpecFind *)

IsExactMatch(h, k) == lower(strip(CollapseWs(h))) = lower(k)

IsSubstringMatch(h, k) == Contains(lower(k), lower(h))

ExactCandidates == {k \in 1..Len(keys) : \E c \in 1..Len(columns) : IsExactMatch(columns[c], keys[k])}

SubstringCandidates ==
  {k \in 1..Len(keys) : \E c \in 1..Len(columns) : IsSubstringMatch(columns[c], keys[k])}

\* C8: when some header equals a candidate (case-insensitive, whitespace
\* collapsed), _find_col returns a header that equals the earliest candidate
\* with an exact match, whatever headers merely contain a candidate; it
\* returns a substring match only when no candidate has an exact match, and
\* None exactly when neither mode matches.
C8_ExactMatchPreferred ==
  pc = "returned" /\ keys # <<>> =>
    /\ ExactCandidates # {} =>
         found # 0 /\ IsExactMatch(columns[found], keys[Min(ExactCandidates)])
    /\ ExactCandidates = {} /\ SubstringCandidates # {} =>
         found # 0 /\ IsSubstringMatch(columns[found], keys[Min(SubstringCandidates)])
    /\ found = 0 <=> ExactCandidates = {} /\ SubstringCandidates = {}

\* an exact match is returned although an earlier column contains an
\* earlier candidate and equals none
C8_Witness ==
  /\ pc = "returned" /\ keys # <<>> /\ found > 1
  /\ \E k \in 2..Len(keys) :
       /\ IsExactMatch(columns[found], keys[k])
       /\ \E c \in 1..(found - 1), k2 \in 1..(k - 1) :
            /\ IsSubstringMatch(columns[c], keys[k2])
            /\ \A k3 \in 1..Len(keys) : ~IsExactMatch(columns[c], keys[k3])

-----------------------------------------------------------------------------
(* Claims about normalise_vat_code, under SpecNorm *)

\* C3: normalise_vat_code(tag, "") returns tag for each of the eight
\* canonical tags.
C3_CanonicalTagsFixed ==
  pc = "returned" /\ description = <<>> =>
    \A k \in 1..Len(CanonicalTags) :
      val = PyStr(CanonicalTags[k][1]) => tag = CanonicalTags[k][2]

\* C4: normalise_vat_code("", "Sale to EU customer") returns EU.
C4_EuFromDescription ==
  pc = "returned" /\ val = PyStr(<<>>) /\ description = <<"S","a","l","e"," ","t","o"," ","E","U"," ","c","u","s","t","o","m","e","r">> =>
    tag = "EU"

-----------------------------------------------------------------------------
(* Claims about assign_boxes, under SpecAssign *)

\* the rule table: what a Line adds to each box of its group
RuleTable(ln) ==
  LET sales == ln.source_type = "sales"
      code == ln.vat_code
  IN  [k \in BoxKeys |->
         CASE k = "1" -> IF sales /\ code = "T20" THEN ln.vat ELSE 0
           [] k = "4" -> IF ~sales /\ ln.source_type \in {"purchases", "unknown"}
                            /\ code \in {"T20", "REDUCED"} THEN ln.vat ELSE 0
           [] k = "6" -> IF sales /\ code \in {"T20", "T0"} THEN ln.net ELSE 0
           [] k = "7" -> IF ~sales /\ ln.source_type \in {"purchases", "unknown"}
                            /\ code \in {"T20", "REDUCED"} THEN ln.net ELSE 0
           [] k = "8" -> IF sales /\ code \in {"NI", "EU"} THEN ln.net ELSE 0
           [] k = "9" -> IF ~sales /\ code \in {"NI", "EU"} THEN ln.net ELSE 0]

BoxesBefore(show) == IF show \in DOMAIN per_show THEN per_show[show].boxes ELSE init_acc

\* C1: each Line processed changes the boxes of its own group as the rule
\* table says, and no box of any other group.
C1_RuleTable ==
  [][idx' = idx + 1 =>
       LET ln == lines[idx']
       IN  /\ DOMAIN per_show' = DOMAIN per_show \cup {ln.show}
           /\ \A k \in BoxKeys :
                per_show'[ln.show].boxes[k] = BoxesBefore(ln.show)[k] + RuleTable(ln)[k]
           /\ \A s \in DOMAIN per_show \ {ln.show} : per_show'[s] = per_show[s]]_vars

\* a sales T20 Line and a non-sales NI/EU Line have been processed, in
\* different groups
C1_Witness ==
  /\ idx = 2
  /\ lines[1].show # lines[2].show
  /\ \E s \in DOMAIN per_show : per_show[s].boxes["1"] # 0 /\ per_show[s].boxes["6"] # 0
  /\ \E s \in DOMAIN per_show : per_show[s].boxes["9"] # 0

RECURSIVE SumBoxes(_, _)
SumBoxes(shows, k) ==
  IF shows = <<>> THEN 0 ELSE per_show[Head(shows)].boxes[k] + SumBoxes(Tail(shows), k)

\* the groups, in some order
RECURSIVE SetToSeq(_)
SetToSeq(S) ==
  IF S = {} THEN <<>>
  ELSE LET x == CHOOSE y \in S : TRUE IN <<x>> \o SetToSeq(S \ {x})

\* C2: for every box, consolidated[box] is the sum over the groups of
\* per_show[group].boxes[box].
C2_ConsolidatedIsSum ==
  pc = "returned" /\ lines # <<>> =>
    \A k \in BoxKeys : consolidated[k] = SumBoxes(SetToSeq(DOMAIN per_show), k)

\* two groups, both with a total in box 6, consolidated
C2_Witness ==
  /\ pc = "returned" /\ lines # <<>>
  /\ \E s, t \in DOMAIN per_show :
       s # t /\ per_show[s].boxes["6"] # 0 /\ per_show[t].boxes["6"] # 0

Permute(s, p) == [i \in 1..Len(s) |-> s[p[i]]]

BoxesOf(ps) == [s \in DOMAIN ps |-> ps[s].boxes]

LinesOfShow(show) == SelectSeq(lines, LAMBDA ln : ln.show = show)

\* C9: every permutation of the Lines gives the same per-group and the same
\* consolidated box totals, and the Lines of one show, whatever their sheets,
\* are one group.
C9_OrderIndependent ==
  pc = "returned" /\ lines # <<>> =>
    /\ \A p \in Permutations(1..Len(lines)) :
         LET r == assign_boxes(Permute(lines, p))
         IN  BoxesOf(r.per_show) = BoxesOf(per_show) /\ r.consolidated = consolidated
    /\ DOMAIN per_show = {lines[i].show : i \in 1..Len(lines)}
    /\ \A s \in DOMAIN per_show : per_show[s].lines = LinesOfShow(s)

\* two different Lines of one show and of different sheets, both counted
C9_Witness ==
  /\ pc = "returned" /\ Len(lines) >= 2
  /\ lines[1].show = lines[2].show /\ lines[1].sheet # lines[2].sheet
  /\ lines[1].vat_code = "T20" /\ lines[2].vat_code = "T0"
  /\ lines[2].source_type = "sales"
  /\ Cardinality(DOMAIN per_show) = 1

\* the boxes of the Line's group that the step changes
ChangedBoxes ==
  {k \in BoxKeys : per_show'[lines[idx'].show].boxes[k] # BoxesBefore(lines[idx'].show)[k]}

\* C10, as amended: the boxes one Line changes lie within {1, 6}, within
\* {4, 7}, within {8} or within {9}: it matches at most one of the first
\* three rows, and never both one of them and a box 8 / box 9 rule.
C10_OneRuleGroup ==
  [][idx' = idx + 1 =>
       \/ ChangedBoxes \subseteq {"1", "6"}
       \/ ChangedBoxes \subseteq {"4", "7"}
       \/ ChangedBoxes \subseteq {"8"}
       \/ ChangedBoxes \subseteq {"9"}]_vars

\* a sales NI/EU Line has been processed: box 8 moved, boxes 1, 4, 6, 7 did not
C10_Witness ==
  /\ idx = 1
  /\ lines[1].vat_code \in {"NI", "EU"} /\ lines[1].source_type = "sales"
  /\ per_show[lines[1].show].boxes["8"] # 0
  /\ \A k \in {"1", "4", "6", "7"} : per_show[lines[1].show].boxes[k] = 0

\* C10, as stated: some Line changes both a box of {1, 4, 6, 7} and a box
\* of {8, 9}.
C10_SomeLineFiresBoth ==
  \E ln \in LineUniverse :
    LET changed == {k \in BoxKeys : Aggregate(per_show, ln)[ln.show].boxes[k]
                                      # BoxesBefore(ln.show)[k]}
    IN  changed \cap {"1", "4", "6", "7"} # {} /\ changed \cap {"8", "9"} # {}

-----------------------------------------------------------------------------
(* Claims about parse_excel, under SpecParse *)

LogEntries == {slog[i] : i \in 1..Len(slog)}

\* the Lines a logged sheet left in the list
LinesFrom(e) == SubSeq(plines, e.first + 1, e.last)

AllZero(a) == a.net = 0 /\ a.vat = 0 /\ a.gross = 0

\* the coerced amounts of the sheet's rows that are not all zero, in row
\* order, with the columns the sheet resolved to
NonZeroRows(e) ==
  SelectSeq([j \in 1..Len(e.rows) |-> RowAmounts(e.c, e.rows[j])], LAMBDA a : ~AllZero(a))

\* each Line of the sheet is the Line of one non-zero row, in row order
OneLinePerNonZeroRow(e) ==
  LET nz == NonZeroRows(e)
      ls == LinesFrom(e)
  IN  /\ Len(ls) = Len(nz)
      /\ \A j \in 1..Len(ls) :
           /\ ls[j].net = nz[j].net /\ ls[j].vat = nz[j].vat /\ ls[j].gross = nz[j].gross
           /\ ls[j].sheet = e.sheet

C7_LinesAreNonZeroRows ==
  /\ \A i \in 1..Len(plines) : ~AllZero(plines[i])
  /\ \A e \in LogEntries : e.outcome = "ok" => OneLinePerNonZeroRow(e)

\* a sheet with no gross column, read to its end: a zero row left no Line,
\* another row left one
C7_Witness ==
  /\ pc = "returned"
  /\ \E e \in LogEntries :
       /\ e.outcome = "ok"
       /\ e.c.c_gross = 0
       /\ Len(NonZeroRows(e)) >= 1 /\ Len(NonZeroRows(e)) < Len(e.rows)
       /\ Len(LinesFrom(e)) >= 1

-----------------------------------------------------------------------------
(* Claims about api_parse, under SpecApi *)

Unreadable == {j \in 1..Len(files) : ~files[j].opens}

\* C6: when a file cannot be read, the response is a 400 whose message names
\* the first such file, it carries no box totals, and no later file is parsed.
C6_UnreadableFileAborts ==
  pc \in {"api_parse", "done"} /\ Unreadable # {} =>
    /\ fi <= Min(Unreadable)
    /\ pc = "done" =>
         /\ fi = Min(Unreadable)
         /\ response.status = 400
         /\ DOMAIN response = {"status", "error"}
         /\ Contains(files[fi].filename, response.error)

\* the second of three files was unreadable: the Lines of the first are
\* dropped and the third is not parsed
C6_Witness ==
  /\ pc = "done" /\ Len(files) = 3 /\ fi = 2
  /\ all_lines # <<>>
  /\ response.status = 400
  /\ files[3].opens

=============================================================================
